---- MODULE Spec2Model ----
(***************************************************************************)
(* Model of src/Transform.py: the Transforms base class, t_identity and    *)
(* t_linear.  A caller owns one options dict (`parameters`), constructs    *)
(* transforms from it and calls apply / invert on them.  Python values are *)
(* tagged records [tag, v]; numpy arrays hold bounded integers.            *)
(***************************************************************************)
EXTENDS Integers, Sequences, FiniteSets, TLC

\* ------------------------------------------------------------------ bounds
MaxConstruct == 2       \* constructor calls made by the caller in one run

\* ------------------------------------------------------- Python values
None == [tag |-> "None", v |-> <<>>]
Scalar(x) == [tag |-> "scalar", v |-> <<x>>]
Array1(s) == [tag |-> "ndarray1", v |-> s]
Array2(m) == [tag |-> "ndarray2", v |-> m]

\* Python truthiness of the flag values the caller can pass (None, False,
\* True) and of the integer 1 the constructor stores.
Truthy(x) == x \in {"True", "1"}

\* numpy shape of a rank-2 array held as a sequence of rows
Rows(m) == Len(m)
Cols(m) == IF Len(m) = 0 THEN 0 ELSE Len(m[1])

\* np.zeros([r, c]) followed by np.fill_diagonal(.., 1)
ZerosFillDiagonal(r, c) ==
    [i \in 1..r |-> [j \in 1..c |-> IF i = j THEN 1 ELSE 0]]

\* ------------------------------------------------------- np.linalg.inv
Minor(m, r, c) ==
    [i \in 1..(Len(m) - 1) |->
        [j \in 1..(Len(m) - 1) |->
            m[IF i < r THEN i ELSE i + 1][IF j < c THEN j ELSE j + 1]]]

Sign(k) == IF k % 2 = 0 THEN 1 ELSE -1

RECURSIVE Det(_)
Det(m) ==
    IF Len(m) = 0 THEN 1
    ELSE IF Len(m) = 1 THEN m[1][1]
    ELSE LET Term(j) == Sign(1 + j) * m[1][j] * Det(Minor(m, 1, j))
             RECURSIVE Sum(_)
             Sum(j) == IF j = 0 THEN 0 ELSE Term(j) + Sum(j - 1)
         IN Sum(Len(m))

Adjugate(m) ==
    [i \in 1..Len(m) |->
        [j \in 1..Len(m) |-> Sign(i + j) * Det(Minor(m, j, i))]]

NoInverse == [tag |-> "None", num |-> <<>>, den |-> 1]

\* The inverse of a square matrix with determinant det, held exactly as
\* Adjugate(m) / det; a zero determinant is numpy's "Singular matrix".
InverseWithDet(m, det) ==
    IF det = 0 THEN [raised |-> "LinAlgError", inv |-> NoInverse]
    ELSE [raised |-> "",
          inv |-> [tag |-> "ndarray2", num |-> Adjugate(m), den |-> det]]

\* np.linalg.inv(m): LinAlgError for a non-square or a singular matrix.
LinalgInv(m) ==
    IF Rows(m) # Cols(m) THEN [raised |-> "LinAlgError", inv |-> NoInverse]
    ELSE InverseWithDet(m, Det(m))

\* ------------------------------------------------- Transforms.__init__
\* The base constructor stores its arguments; `parameters` is stored by
\* reference ("ref" = the caller's dict, "None" = no dict was passed).
Transforms_init(name, parameters, non_invertible, reverse_flag, input_dim, output_dim) ==
    [name |-> name, parameters |-> parameters,
     non_invertible |-> non_invertible, reverse_flag |-> reverse_flag,
     input_dim |-> input_dim, output_dim |-> output_dim, inv |-> NoInverse]

\* t_identity.__init__: parameters defaults to None, dimensions to 0.
t_identity_init(non_invertible, reverse_flag) ==
    Transforms_init("identity", "None", non_invertible, reverse_flag, 0, 0)

\* --------------------------------------------------- t_linear.__init__
\* Dimensions when parameters['matrix'] is supplied.
MatrixDims(m) == [input_dim |-> Rows(m), output_dim |-> Cols(m)]

\* The rot test made before the scale/pre/post/dims chain.  A bool is an
\* int in Python, so `self.input_dim = self.output_dim == 3` stores 1 or 0.
DimsFromRot(p, input_dim, output_dim) ==
    IF p.rot.tag = "ndarray1"
    THEN IF Len(p.rot.v) = 1
         THEN [input_dim |-> 2, output_dim |-> 2]
         ELSE IF Len(p.rot.v) = 3
              THEN [input_dim |-> IF output_dim = 3 THEN 1 ELSE 0,
                    output_dim |-> output_dim]
              ELSE [input_dim |-> input_dim, output_dim |-> output_dim]
    ELSE [input_dim |-> input_dim, output_dim |-> output_dim]

\* InferDims with the dims test moved ahead of the pre and post tests.
InferDims_DimsBeforeOffsets(p, dims0) ==
    IF p.scale.tag = "ndarray1"
    THEN [input_dim |-> Len(p.scale.v), output_dim |-> Len(p.scale.v)]
    ELSE IF p.dims.tag # "None"
    THEN [input_dim |-> p.dims.v[1], output_dim |-> p.dims.v[1]]
    ELSE IF p.pre.tag = "ndarray1"
    THEN [input_dim |-> Len(p.pre.v), output_dim |-> Len(p.pre.v)]
    ELSE IF p.post.tag = "ndarray1"
    THEN [input_dim |-> Len(p.post.v), output_dim |-> Len(p.post.v)]
    ELSE [input_dim |-> 2, output_dim |-> 2]

\* The if / elif chain over scale, pre, post, dims; every branch assigns
\* both dimensions, whatever `dims0` the rot test left.
InferDims(p, dims0) ==
    IF p.scale.tag = "ndarray1"
    THEN [input_dim |-> Len(p.scale.v), output_dim |-> Len(p.scale.v)]
    ELSE IF p.pre.tag = "ndarray1"
    THEN [input_dim |-> Len(p.pre.v), output_dim |-> Len(p.pre.v)]
    ELSE IF p.post.tag = "ndarray1"
    THEN [input_dim |-> Len(p.post.v), output_dim |-> Len(p.post.v)]
    ELSE IF p.dims.tag # "None"
    THEN [input_dim |-> p.dims.v[1], output_dim |-> p.dims.v[1]]
    ELSE [input_dim |-> 2, output_dim |-> 2]

\* Whether the final else of that chain runs; it prints
\* "Assuming 2-D transform(set dims options)".
DefaultDimsBranch(p) ==
    /\ p.matrix.tag = "None"
    /\ p.scale.tag # "ndarray1" /\ p.pre.tag # "ndarray1"
    /\ p.post.tag # "ndarray1" /\ p.dims.tag = "None"

\* Rotation handling.  `rot is np.ndarray` compares a value with the class
\* and is false, so control reaches `rot != 0 and ...`: an array of more
\* than one element has no truth value there.  The rotation matrix that is
\* computed is never stored.
RotRaises(p) ==
    IF p.rot.tag = "ndarray1" /\ Len(p.rot.v) > 1 THEN "ValueError" ELSE ""

\* The right operand of `matrix[j][j] *= scale`: a scalar, or an array
\* that numpy must store into one element.  `coerce` is whether the numpy
\* in use still converts a one-element array to a scalar.
ImulOperand(scale, coerce) ==
    IF scale.tag = "scalar" THEN [raised |-> "", k |-> scale.v[1]]
    ELSE IF Len(scale.v) = 1 /\ coerce
         THEN [raised |-> "", k |-> scale.v[1]]
         ELSE [raised |-> "ValueError", k |-> 1]

\* for j in range(matrix.shape[0]): matrix[j][j] *= k   (in place; j is
\* 1-based here).  Entries already multiplied stay so when a later index
\* is out of range.
RECURSIVE ScaleLoop(_, _, _)
ScaleLoop(m, j, k) ==
    IF j > Rows(m) THEN [raised |-> "", matrix |-> m]
    ELSE IF j > Cols(m) THEN [raised |-> "IndexError", matrix |-> m]
    ELSE ScaleLoop([m EXCEPT ![j][j] = @ * k], j + 1, k)

\* `type((scale) is not np.ndarray)` is the class bool, which is true: the
\* first branch runs for every scale that is not None.
ScaleScalarBranch(scale) == scale.tag # "None"

\* The loop of the first branch, given the operand k.
ScaleBy(m, k) ==
    IF k.raised # "" THEN [raised |-> k.raised, matrix |-> m]
    ELSE ScaleLoop(m, 1, k.k)

\* The scale step: the matrix after it and the exception raised, if any.
\* The elif is reached only with scale None, which is no ndarray; were it
\* reached, `.ndims` is no attribute of an ndarray.
ApplyScale(m, scale, coerce) ==
    IF ScaleScalarBranch(scale)
    THEN IF Rows(m) = 0 THEN [raised |-> "", matrix |-> m]
         ELSE ScaleBy(m, ImulOperand(scale, coerce))
    ELSE IF scale.tag = "ndarray1"
         THEN [raised |-> "AttributeError", matrix |-> m]
         ELSE [raised |-> "", matrix |-> m]

\* self.inv / self.non_invertible given the outcome r of np.linalg.inv:
\* except LinAlgError: self.inv = None; self.non_invertible = 1
StoreInverse(self, r) ==
    IF r.raised = "" THEN [self EXCEPT !.inv = r.inv]
    ELSE [self EXCEPT !.inv = NoInverse, !.non_invertible = "1"]

\* try: self.inv = np.linalg.inv(self.parameters['matrix']) ...
SetInverse(self, m) == StoreInverse(self, LinalgInv(m))

\* The constructor runs in four steps; each takes and returns a record
\* [raised, self, parameters, printed]: the exception raised so far (or
\* ""), the object, the caller's dict as left so far, the line printed.

\* Step 1: dimensions, and a generated matrix when none is supplied.
WithDims(st, dims) ==
    [st EXCEPT
        !.self.input_dim = dims.input_dim,
        !.self.output_dim = dims.output_dim,
        !.parameters.matrix =
            IF @.tag # "None" THEN @
            ELSE Array2(ZerosFillDiagonal(dims.input_dim, dims.output_dim))]

InitDims(p, non_invertible, reverse_flag, input_dim, output_dim) ==
    WithDims(
        [raised |-> "",
         self |-> Transforms_init("t_linear", "ref", non_invertible,
                                  reverse_flag, input_dim, output_dim),
         parameters |-> p,
         printed |-> IF DefaultDimsBranch(p)
                     THEN "Assuming 2-D transform(set dims options)" ELSE ""],
        IF p.matrix.tag # "None"
        THEN MatrixDims(p.matrix.v)
        ELSE InferDims(p, DimsFromRot(p, input_dim, output_dim)))

\* Step 2: rotation.
InitRot(st) == [st EXCEPT !.raised = RotRaises(st.parameters)]

\* Step 3: scale, applied in place to the dict's matrix.
WithScale(st, sc) ==
    [st EXCEPT !.raised = sc.raised, !.parameters.matrix = Array2(sc.matrix)]

InitScale(st, coerce) ==
    IF st.raised # "" THEN st
    ELSE WithScale(st, ApplyScale(st.parameters.matrix.v,
                                  st.parameters.scale, coerce))

\* Step 4: the inverse.
InitInverse(st) ==
    IF st.raised # "" THEN st
    ELSE [st EXCEPT !.self = SetInverse(@, st.parameters.matrix.v)]

\* The whole constructor on the caller's dict p.
t_linear_init(p, non_invertible, reverse_flag, input_dim, output_dim, coerce) ==
    InitInverse(InitScale(InitRot(
        InitDims(p, non_invertible, reverse_flag, input_dim, output_dim)),
        coerce))

\* ------------------------------------------------------------- apply
\* Outcome of a call: the exception raised (or ""), the value returned and
\* the last line printed.
Outcome(raised, value, printed) ==
    [raised |-> raised, value |-> value, printed |-> printed]

\* EffectiveForward with the reverse flag left out of the test.
EffectiveForward_IgnoresReverse(backwards, reverse_flag) == backwards = 0

\* The test that selects the forward branch of t_linear.apply.
EffectiveForward(backwards, reverse_flag) ==
    (backwards = 0 /\ ~Truthy(reverse_flag))
        \/ (backwards # 0 /\ Truthy(reverse_flag))

\* np.shape(data)[0]
Shape0(data) == Len(data.v)

\* Whether data[0:d] + pre broadcasts: data[0:d] has shape (d,) or (d, n).
BroadcastOK(data, d, pre) ==
    \/ pre.tag = "scalar"
    \/ /\ pre.tag = "ndarray1"
       /\ LET m == Len(pre.v)
              last == IF data.tag = "ndarray1" THEN d ELSE Len(data.v[1])
          IN m = last \/ m = 1 \/ last = 1

\* The branch taken when the forward branch is not: the test is on
\* self.non_invertible itself.
BackwardBranch(non_invertible) ==
    IF Truthy(non_invertible)
    THEN "is going to run inverse"
    ELSE "trying to invert a non-invertible matrix."

\* t_linear.apply(self, data, backwards): no branch returns a value.
t_linear_apply(self, p, data, backwards) ==
    IF EffectiveForward(backwards, self.reverse_flag)
    THEN LET d == Rows(p.matrix.v)
         IN IF data.tag = "None" THEN Outcome("IndexError", None, "forward")
            ELSE IF d > Shape0(data) THEN Outcome("ValueError", None, "forward")
            ELSE IF p.pre.tag = "None" THEN Outcome("TypeError", None, "forward")
            ELSE IF ~BroadcastOK(data, d, p.pre)
                 THEN Outcome("ValueError", None, "forward")
                 ELSE Outcome("", None, "forward")
    ELSE Outcome("", None, BackwardBranch(self.non_invertible))

\* t_identity.apply(self, data, backward): `pass`.
t_identity_apply(self, data, backward) == Outcome("", None, "")

\* Dispatch of obj.apply(data, <direction>) given positionally.
apply(self, p, data, backwards) ==
    IF self.name = "t_linear" THEN t_linear_apply(self, p, data, backwards)
    ELSE t_identity_apply(self, data, backwards)

\* The name of the direction parameter in each class's apply signature.
ApplyKeyword(name) == IF name = "t_linear" THEN "backwards" ELSE "backward"

\* Transforms.invert: self.apply(data, backward=1).  The keyword must be a
\* parameter of the apply that is bound, or the call is a TypeError.
invert(self, p, data) ==
    IF ApplyKeyword(self.name) # "backward"
    THEN Outcome("TypeError", None, "")
    ELSE apply(self, p, data, 1)

\* ------------------------------------------------------------ inputs
I2 == << <<1, 0>>, <<0, 1>> >>
Singular2 == << <<1, 1>>, <<1, 1>> >>
Shear2 == << <<1, 1>>, <<0, 1>> >>
M2x3 == << <<1, 0, 0>>, <<0, 1, 0>> >>
M3x2 == << <<1, 0>>, <<0, 1>>, <<0, 0>> >>

MatrixInputs ==
    {Array2(I2), Array2(Singular2), Array2(Shear2), Array2(M2x3), Array2(M3x2)}
RotInputs == {None, Array1(<<90>>), Array1(<<10, 20, 30>>)}
ScaleInputs == {None, Scalar(2), Array1(<<2, 3>>), Array1(<<5>>)}
\* The options dicts a caller builds: every key is present (the
\* constructor indexes all six), unset ones hold None.  Without a matrix,
\* every combination of the other five keys (pre has length 3, post length 4, dims is 2); with a matrix, the matrix
\* with or without a scale and with or without offsets and dims.
OptionsWithoutMatrix ==
    [matrix : {None}, rot : RotInputs, scale : ScaleInputs,
     pre : {None, Array1(<<1, 2, 3>>)},
     post : {None, Array1(<<3, 4, 5, 6>>)},
     dims : {None, Scalar(2)}]

OptionsWithMatrix ==
    { [matrix |-> m, rot |-> None, scale |-> s, pre |-> o[1], post |-> o[2],
       dims |-> o[3]] :
        m \in MatrixInputs, s \in {None, Scalar(2), Array1(<<2, 3>>)},
        o \in {<<None, None, None>>, <<None, None, Scalar(4)>>,
               <<Array1(<<1, 2>>), Array1(<<3, 4>>), None>>,
               <<Array1(<<1, 2>>), Array1(<<3, 4>>), Scalar(4)>>} }

OptionInputs == OptionsWithoutMatrix \cup OptionsWithMatrix

FlagInputs == {"False", "True"}
DimArgInputs == {0, 3}
\* Batches: axis 0 is the coordinate axis.  One point [1, 1] as a rank-1
\* array, one point [1, 2, 99] as a 3 x 1 array, and None (what apply
\* itself returns).
DataInputs == {None, Array1(<<1, 1>>), Array2(<< <<1>>, <<2>>, <<99>> >>)}
BackwardsInputs == {0, 1}

\* ------------------------------------------------------------- state
VARIABLES
    parameters,   \* the caller's options dict, shared with every t_linear
    objs,         \* the transforms constructed so far
    result,       \* the last call made and its outcome
    nconstruct    \* constructor calls made so far

vars == <<parameters, objs, result, nconstruct>>

NoObject == Transforms_init("", "None", "None", "None", 0, 0)

Call(op, self, data, backwards, out) ==
    [op |-> op, self |-> self, data |-> data, backwards |-> backwards,
     raised |-> out.raised, value |-> out.value, printed |-> out.printed]

Init ==
    /\ parameters \in OptionInputs
    /\ objs = {}
    /\ result = Call("", NoObject, None, 0, Outcome("", None, ""))
    /\ nconstruct = 0

\* t = t_linear(..., parameters, non_invertible, reverse_flag, ...)
ConstructLinear(non_invertible, reverse_flag, input_dim, output_dim, coerce) ==
    /\ nconstruct < MaxConstruct
    /\ \E r \in {t_linear_init(parameters, non_invertible, reverse_flag,
                               input_dim, output_dim, coerce)} :
          /\ parameters' = r.parameters
          /\ objs' = IF r.raised = "" THEN objs \cup {r.self} ELSE objs
          /\ result' = Call("t_linear",
                            IF r.raised = "" THEN r.self ELSE NoObject,
                            None, 0, Outcome(r.raised, None, r.printed))
    /\ nconstruct' = nconstruct + 1

\* t = t_identity()
ConstructIdentity ==
    /\ nconstruct < MaxConstruct
    /\ \E self \in {t_identity_init("None", "None")} :
          /\ objs' = objs \cup {self}
          /\ result' = Call("t_identity", self, None, 0, Outcome("", None, ""))
    /\ nconstruct' = nconstruct + 1
    /\ UNCHANGED parameters

\* t.apply(data, backwards)
Apply(self, data, backwards) ==
    /\ self \in objs
    /\ result' = Call("apply", self, data, backwards,
                      apply(self, parameters, data, backwards))
    /\ UNCHANGED <<parameters, objs, nconstruct>>

\* t.invert(data)
Invert(self, data) ==
    /\ self \in objs
    /\ result' = Call("invert", self, data, 1, invert(self, parameters, data))
    /\ UNCHANGED <<parameters, objs, nconstruct>>

\* The caller passes the same placeholder for input_dim and output_dim;
\* the constructor overwrites both.
Next ==
    \/ \E ni \in FlagInputs, rf \in FlagInputs, d \in DimArgInputs,
          coerce \in BOOLEAN :
          ConstructLinear(ni, rf, d, d, coerce)
    \/ ConstructIdentity
    \/ \E self \in objs, data \in DataInputs, b \in BackwardsInputs :
          Apply(self, data, b)
    \/ \E self \in objs, data \in DataInputs : Invert(self, data)

Spec == Init /\ [][Next]_vars

\* ===================================================================
\* Properties
\* ===================================================================
LinearObjs == {o \in objs : o.name = "t_linear"}

\* The matrix has an inverse: square with a non-zero determinant.
HasInverse(m) == Rows(m) = Cols(m) /\ Det(m) # 0

\* A step that is a call of the t_linear constructor.
LinearConstructed ==
    result'.op = "t_linear" /\ nconstruct' = nconstruct + 1

\* Offset j of an offset vector, an unset one counting as zero.
OffsetAt(off, j) == IF off.tag = "None" THEN 0 ELSE off.v[j]

OffsetFits(off, d) == off.tag = "None" \/ (off.tag = "ndarray1" /\ Len(off.v) = d)

\* Coordinate i of matrix . (x + pre) + post for a point x.
RECURSIVE RowDot(_, _, _, _)
RowDot(row, x, pre, j) ==
    IF j = 0 THEN 0
    ELSE row[j] * (x[j] + OffsetAt(pre, j)) + RowDot(row, x, pre, j - 1)

ForwardPoint(m, pre, post, x) ==
    [i \in 1..Len(x) |->
        IF i <= Rows(m) THEN RowDot(m[i], x, pre, Cols(m)) + OffsetAt(post, i)
        ELSE x[i]]

\* The batch the forward transform is to return: every point mapped,
\* coordinates beyond the matrix copied.
ForwardBatch(m, pre, post, data) ==
    IF data.tag = "ndarray1" THEN Array1(ForwardPoint(m, pre, post, data.v))
    ELSE Array2([i \in 1..Len(data.v) |->
            [c \in 1..Len(data.v[1]) |->
                ForwardPoint(m, pre, post,
                             [k \in 1..Len(data.v) |-> data.v[k][c]])[i]]])

\* A transform and a batch the round-trip and forward claims cover: a
\* square matrix, offsets unset or of its size, a batch with at least as
\* many coordinates.
Compatible(p, data) ==
    /\ Rows(p.matrix.v) = Cols(p.matrix.v)
    /\ OffsetFits(p.pre, Rows(p.matrix.v))
    /\ OffsetFits(p.post, Rows(p.matrix.v))
    /\ data.tag # "None"
    /\ Shape0(data) >= Rows(p.matrix.v)

\* C1: for an invertible linear transform T (pre and post offsets set)
\* and a compatible batch B, T.invert(T.apply(B, forward)) returns B.
RoundTrip ==
    \A o \in LinearObjs, B \in DataInputs :
        (HasInverse(parameters.matrix.v) /\ o.inv.tag # "None"
         /\ ~Truthy(o.non_invertible)
         /\ parameters.pre.tag = "ndarray1" /\ parameters.post.tag = "ndarray1"
         /\ Compatible(parameters, B)) =>
            /\ apply(o, parameters, B, 0).raised = ""
            /\ invert(o, parameters, apply(o, parameters, B, 0).value)
                   = Outcome("", B, invert(o, parameters, B).printed)

\* The direction a call is to execute: requested direction XOR reversed.
BackwardRequested(call) ==
    (call.backwards # 0) # Truthy(call.self.reverse_flag)

LinearApplied == result.op = "apply" /\ result.self.name = "t_linear"

\* C2: a backward application (effective direction) on a transform with
\* no cached inverse fails with NonInvertibleTransform and does not run
\* the inverse computation; on an invertible one it does not take the
\* error path.
BackwardNeedsInverse ==
    (LinearApplied /\ BackwardRequested(result)) =>
        IF result.self.inv.tag = "None"
        THEN /\ result.raised = "NonInvertibleTransform"
             /\ result.printed # "is going to run inverse"
        ELSE /\ result.raised # "NonInvertibleTransform"
             /\ result.printed # "trying to invert a non-invertible matrix."

\* C3: after a t_linear is constructed, whatever the arguments, the flag
\* and the cached inverse agree with the resolved matrix: invertible
\* matrix, inverse cached, reports invertible; otherwise no inverse cached
\* and reports not invertible.
FlagAgreesWithInverse ==
    (result.op = "t_linear" /\ result.raised = "") =>
        IF HasInverse(parameters.matrix.v)
        THEN result.self.inv.tag # "None"
             /\ ~Truthy(result.self.non_invertible)
        ELSE result.self.inv.tag = "None"
             /\ Truthy(result.self.non_invertible)

\* C4: apply executes (requested direction XOR reversed flag): the forward
\* branch runs exactly when the two agree, and a reversed transform applied
\* forward (backward) ends as its unreversed twin applied backward
\* (forward), in result, error and branch.
ReversedFlagSymmetry ==
    /\ LinearApplied =>
          ((result.printed = "forward") <=> ~BackwardRequested(result))
    /\ \A o1 \in LinearObjs, o2 \in LinearObjs, B \in DataInputs :
          (Truthy(o1.reverse_flag)
           /\ o2 = [o1 EXCEPT !.reverse_flag = "False"]) =>
              /\ apply(o1, parameters, B, 0) = apply(o2, parameters, B, 1)
              /\ apply(o1, parameters, B, 1) = apply(o2, parameters, B, 0)

\* C4 witness: a reversed transform was applied forward, ran the backward
\* branch, and its unreversed twin exists.
ReversedForwardApplied ==
    /\ LinearApplied
    /\ result.self.reverse_flag = "True" /\ result.backwards = 0
    /\ result.printed # "forward"
    /\ [result.self EXCEPT !.reverse_flag = "False"] \in objs

\* C5: invert(data) ends as apply(data, backward) does on the same
\* transform and data: same result or same error.
InvertIsApplyBackward ==
    result.op = "invert" =>
        LET a == apply(result.self, parameters, result.data, 1)
        IN result.raised = a.raised /\ result.value = a.value

\* C6: a forward application to a batch with at least d coordinates
\* returns matrix . (input + pre) + post in the leading d coordinates and
\* the input's own values beyond them.
ForwardResult ==
    (LinearApplied /\ ~BackwardRequested(result)
     /\ Compatible(parameters, result.data)) =>
        /\ result.raised = ""
        /\ result.value = ForwardBatch(parameters.matrix.v, parameters.pre,
                                       parameters.post, result.data)

\* C7: with a matrix supplied, input_dim is its column count and
\* output_dim its row count, whatever scale, pre, post or dims say.
MatrixShapeGivesDims ==
    [][(LinearConstructed /\ parameters.matrix.tag # "None"
        /\ result'.raised = "") =>
            /\ result'.self.input_dim = Cols(parameters.matrix.v)
            /\ result'.self.output_dim = Rows(parameters.matrix.v)]_vars

\* The dimensionality the priority order scale, pre, post, dims gives.
PriorityDims(p) ==
    IF p.scale.tag = "ndarray1" THEN Len(p.scale.v)
    ELSE IF p.pre.tag = "ndarray1" THEN Len(p.pre.v)
    ELSE IF p.post.tag = "ndarray1" THEN Len(p.post.v)
    ELSE IF p.dims.tag # "None" THEN p.dims.v[1]
    ELSE 2

NoneGivesDims(p) ==
    /\ p.scale.tag # "ndarray1" /\ p.pre.tag # "ndarray1"
    /\ p.post.tag # "ndarray1" /\ p.dims.tag = "None"

\* C8: with no matrix supplied, the dimensionality the constructor
\* resolves (the shape of the matrix it generates, and both dimensions of
\* the transform it returns) is that of the first of scale (length), pre
\* (length), post (length), dims that is present; the 2-D default is taken
\* (and announced) only when none is, and rot plays no part.
DimsFollowPriority ==
    [][(LinearConstructed /\ parameters.matrix.tag = "None") =>
            /\ Rows(parameters'.matrix.v) = PriorityDims(parameters)
            /\ Cols(parameters'.matrix.v) = PriorityDims(parameters)
            /\ (result'.printed = "Assuming 2-D transform(set dims options)")
                   <=> NoneGivesDims(parameters)
            /\ result'.raised = "" =>
                  /\ result'.self.input_dim = PriorityDims(parameters)
                  /\ result'.self.output_dim = PriorityDims(parameters)]_vars

\* C8 witness: {pre: [1,2,3]} and nothing else resolved to 3 dimensions.
PreGaveThreeDims ==
    /\ result.op = "t_linear" /\ result.raised = "" /\ nconstruct = 1
    /\ parameters.pre = Array1(<<1, 2, 3>>)
    /\ parameters.scale = None /\ parameters.rot = None
    /\ parameters.post = None /\ parameters.dims = None
    /\ result.self.input_dim = 3 /\ result.self.output_dim = 3

\* The matrix m with diagonal entry j multiplied by k (scalar scale) or by
\* scale[j] (vector scale).
ScaledDiagonal(m, scale) ==
    [i \in 1..Rows(m) |->
        [j \in 1..Cols(m) |->
            IF i # j THEN m[i][j]
            ELSE m[i][j] * (IF scale.tag = "scalar" THEN scale.v[1]
                            ELSE scale.v[j])]]

\* The matrix the scale is applied to: the one supplied, or the identity.
BaseMatrix(p) ==
    IF p.matrix.tag # "None" THEN p.matrix.v
    ELSE ZerosFillDiagonal(PriorityDims(p), PriorityDims(p))

\* C9: a scalar scale multiplies every diagonal entry, a rank-1 vector
\* scale multiplies diagonal entry j by scale[j]; nothing else changes.
\* (Square base matrix, vector of its size, no rot.)
ScaleOnDiagonal ==
    [][(LinearConstructed /\ parameters.scale.tag # "None"
        /\ parameters.rot = None
        /\ Rows(BaseMatrix(parameters)) = Cols(BaseMatrix(parameters))
        /\ (parameters.scale.tag = "ndarray1" =>
                Len(parameters.scale.v) = Rows(BaseMatrix(parameters)))) =>
            /\ result'.raised = ""
            /\ parameters'.matrix.v
                   = ScaledDiagonal(BaseMatrix(parameters), parameters.scale)]_vars

\* C10: constructing a t_linear leaves the caller's options, the matrix
\* in it included, as they were, so no earlier transform's matrix changes.
ConstructionIsPure ==
    [][LinearConstructed =>
            /\ parameters' = parameters
            /\ (LinearObjs # {} => parameters'.matrix = parameters.matrix)]_vars

====
